---- MODULE Spec2Model ----
(***************************************************************************)
(* Model of src/scripting/callback_manager.cpp (CounterStrikeSharp):        *)
(* ScriptCallback (a named channel with an ordered list of listener         *)
(* function pointers and one call context) and CallbackManager (the         *)
(* registry owning the channels).                                           *)
(*                                                                          *)
(* A listener pointer is a 64-bit address, kept as four 16-bit words, most  *)
(* significant first, so that the plausibility check keeps its width.       *)
(* A channel pointer is an index into a small heap; 0 is nullptr.           *)
(***************************************************************************)
EXTENDS Integers, Sequences, FiniteSets

(* ------------------------------ bounds --------------------------------- *)
\* longest listener list the model lets a channel grow to
MaxListeners == 3
\* most AddListener/RemoveListener calls one listener invocation makes
MaxReentrant == 1
\* heap slots available to `new ScriptCallback`
MaxChannels == 3

(* --------------------------- program constants ------------------------- *)
\* one 16-bit word of a uintptr_t
WordBase == 65536
\* the floor 0x1000 of the corruption check
Floor == 4096
\* the shift of the corruption check
HighShift == 56
\* nullptr as a ScriptCallback*
NullChannel == 0

VARIABLES
    chState,          \* heap slot -> "free" | "live" (holds a ScriptCallback)
    m_name,           \* ScriptCallback::m_name
    m_functions,      \* ScriptCallback::m_functions
    m_root_context,   \* ScriptCallback::m_root_context (the call context)
    ctxUsable,        \* whether reading the context's result slot succeeds
    m_managed,        \* CallbackManager::m_managed
    pc,               \* "idle" | "loop" | "listener": position inside Execute
    exCh,             \* the channel whose Execute is running
    functionsCopy,    \* Execute's local copy of m_functions
    nI,               \* Execute's loop index
    bResetContext,    \* Execute's argument
    reent,            \* calls made so far by the listener being invoked
    invoked,          \* history: listeners invoked in the current/last pass
    pass0,            \* history: m_functions as it stood when the pass began
    signaled,         \* history: ThrowNativeError was called in this pass
    faults,           \* history: how many invocations into the pass the first threw, or 0
    escaped,          \* history: an exception left Execute
    faultedBefore,    \* history: an earlier pass of the channel had a fault
    hist,             \* history: per channel and pointer, the last AddListener or
                      \*   RemoveListener call made on the channel itself
    newest,           \* history: per channel, the pointer of the latest such add
    adds,             \* history: per channel and pointer, such adds since its removal
    lastOp,           \* history: the last call and what it returned
    old_functions,    \* history: m_functions of lastOp's channel before the call
    old_managed,      \* history: m_managed before the call
    createdOrder,     \* history: the live channels, in the order of their construction
    held,             \* the pointers to channels that callers hold: not passed to
                      \*   ReleaseCallback, nor cleared by ClearAllCallbacks, since
    pre,              \* CallbackPair::pre
    post,             \* CallbackPair::post
    pairState,        \* the CallbackPair object: "none" | "constructed" |
                      \*   "destroyed" | "destroyedAgain"
    pairMade,         \* history: the channels the pair's constructor created
    releases,         \* history: the ReleaseCallback calls the last call issued
    freed,            \* history: the pointers the last call applied delete to
    useAfterFree,     \* history: a member of a destroyed channel was read
    doubleFree        \* history: delete was applied to a destroyed channel

vars == <<chState, m_name, m_functions, m_root_context, ctxUsable, m_managed,
          pc, exCh, functionsCopy, nI, bResetContext, reent,
          invoked, pass0, signaled, faults, escaped, faultedBefore,
          hist, newest, adds, lastOp, old_functions, old_managed, createdOrder,
          held, pre, post, pairState, pairMade, releases, freed, useAfterFree, doubleFree>>

execVars == <<pc, exCh, functionsCopy, nI, bResetContext, reent>>
passHist == <<invoked, pass0, signaled, faults, escaped, faultedBefore>>
heapVars == <<chState, m_name, m_root_context, ctxUsable>>
callHist == <<hist, newest, adds>>
regHist == <<old_managed, createdOrder>>
pairVars == <<pre, post, pairState, pairMade>>
ubHist == <<useAfterFree, doubleFree>>
lifeVars == <<held, pairVars, releases, freed, ubHist>>

(* --------------------------- listener pointers ------------------------- *)
ChanIds == 1..MaxChannels

NullFn == <<0, 0, 0, 0>>
\* 0x0000000000001000 and 0x00ffffffffffffff: the two ends of the accepted range
FnA == <<0, 0, 0, 4096>>
FnB == <<255, 65535, 65535, 65535>>
\* 0x0100000000000000: the first address above it
FnHigh == <<256, 0, 0, 0>>
Refs == {NullFn, FnA, FnB}
Names == {"a", "b"}

\* p < q on 64-bit values
AddrLT(p, q) ==
    \E i \in 1..4 : p[i] < q[i] /\ \A j \in 1..(i - 1) : p[j] = q[j]

\* the 64-bit value of a small number
AddrOf(n) == <<0, 0, 0, n>>

\* p >> n on 64-bit values, 0 <= n < 64
ShiftRight(p, n) ==
    LET k == n \div 16
        b == n % 16
        Src(j) == IF j >= 1 THEN p[j] ELSE 0
    IN  [i \in 1..4 |->
            ((Src(i - k) \div (2 ^ b))
               + ((Src(i - k - 1) % (2 ^ b)) * (2 ^ (16 - b)))) % WordBase]

IsCorrupted_Shift48(ptrValue) ==
    AddrLT(ptrValue, AddrOf(Floor)) \/ ShiftRight(ptrValue, 48) # NullFn

\* ptrValue < 0x1000 || (ptrValue >> 56) != 0
IsCorrupted(ptrValue) ==
    AddrLT(ptrValue, AddrOf(Floor)) \/ ShiftRight(ptrValue, HighShift) # NullFn

(* ------------------------------ sequences ------------------------------ *)
Count(s, x) == Cardinality({i \in 1..Len(s) : s[i] = x})

Elems(s) == {s[i] : i \in 1..Len(s)}

\* std::ranges::remove + erase: the elements other than x, order kept
EraseAll(s, x) == SelectSeq(s, LAMBDA e : e # x)

(* ----------------------------- call context ---------------------------- *)
\* fxNativeContext{}
ZeroContext == [numArguments |-> 0, has_error |-> FALSE]

ContextReset(ctx) == ZeroContext

ThrowNativeError(ctx) == [ctx EXCEPT !.has_error = TRUE]

\* Ctx.GetResult<void*>() inside try/catch(...)
IsContextSafe(c) == ctxUsable[c]

(* ------------------------------ history -------------------------------- *)
NoOp == [op |-> "none", ch |-> NullChannel, name |-> "", ref |-> NullFn,
         ret |-> FALSE, retCh |-> NullChannel]

Call(op, c, name, ref, ret, retCh) ==
    [op |-> op, ch |-> c, name |-> name, ref |-> ref, ret |-> ret, retCh |-> retCh]

InPass(c) == pc = "listener" /\ exCh = c

Note(h, c, r, v) ==
    IF r \in DOMAIN h[c] THEN [h EXCEPT ![c][r] = v] ELSE h

\* calls made during the pass that has ended now lie before the next pass
Settle(h) ==
    [c \in DOMAIN h |-> [r \in DOMAIN h[c] |->
        CASE h[c][r] = "added_in_pass" -> "added"
          [] h[c][r] = "removed_in_pass" -> "removed"
          [] OTHER -> h[c][r]]]

\* the histories of a pass are kept while it runs and until the next call
KeepPass ==
    IF pc = "idle"
    THEN /\ invoked' = <<>> /\ pass0' = <<>>
         /\ signaled' = FALSE /\ faults' = 0
    ELSE UNCHANGED <<invoked, pass0, signaled, faults>>

\* the pointers whose calls the histories follow
Tracked == {FnA, FnB}
NoHist == [r \in Tracked |-> "none"]
NoAdds == [r \in Tracked |-> 0]

(* ------------------------------- Init ---------------------------------- *)
\* the state the histories start from
HistInit ==
    /\ invoked = <<>> /\ pass0 = <<>>
    /\ signaled = FALSE /\ faults = 0 /\ escaped = FALSE
    /\ faultedBefore = FALSE
    /\ hist = [c \in ChanIds |-> NoHist]
    /\ newest = [c \in ChanIds |-> NullFn]
    /\ adds = [c \in ChanIds |-> NoAdds]
    /\ lastOp = NoOp
    /\ old_functions = <<>>
    /\ old_managed = <<>>

ExecInit ==
    /\ pc = "idle" /\ exCh = NullChannel /\ functionsCopy = <<>>
    /\ nI = 0 /\ bResetContext = FALSE /\ reent = 0

\* no pointer handed out, no CallbackPair constructed
LifeInit ==
    /\ held = {}
    /\ pre = NullChannel /\ post = NullChannel /\ pairState = "none"
    /\ pairMade = <<>>
    /\ releases = <<>> /\ freed = <<>>
    /\ useAfterFree = FALSE /\ doubleFree = FALSE

\* one ScriptCallback("a") constructed, the CallbackManager empty
Init ==
    /\ chState = [c \in ChanIds |-> IF c = 1 THEN "live" ELSE "free"]
    /\ m_name = [c \in ChanIds |-> IF c = 1 THEN "a" ELSE ""]
    /\ m_functions = [c \in ChanIds |-> <<>>]
    /\ m_root_context = [c \in ChanIds |-> ZeroContext]
    /\ ctxUsable = [c \in ChanIds |-> TRUE]
    /\ m_managed = <<>>
    /\ createdOrder = <<1>>
    /\ ExecInit
    /\ HistInit
    /\ LifeInit

\* the CallbackManager constructed, and no channel yet
InitRegistry ==
    /\ chState = [c \in ChanIds |-> "free"]
    /\ m_name = [c \in ChanIds |-> ""]
    /\ m_functions = [c \in ChanIds |-> <<>>]
    /\ m_root_context = [c \in ChanIds |-> ZeroContext]
    /\ ctxUsable = [c \in ChanIds |-> TRUE]
    /\ m_managed = <<>>
    /\ createdOrder = <<>>
    /\ ExecInit
    /\ HistInit
    /\ LifeInit

\* the CallbackManager holding one channel, CreateCallback("a")
InitMix ==
    /\ chState = [c \in ChanIds |-> IF c = 1 THEN "live" ELSE "free"]
    /\ m_name = [c \in ChanIds |-> IF c = 1 THEN "a" ELSE ""]
    /\ m_functions = [c \in ChanIds |-> <<>>]
    /\ m_root_context = [c \in ChanIds |-> ZeroContext]
    /\ ctxUsable = [c \in ChanIds |-> TRUE]
    /\ m_managed = <<1>>
    /\ createdOrder = <<1>>
    /\ ExecInit
    /\ HistInit
    /\ held = {1}
    /\ pre = NullChannel /\ post = NullChannel /\ pairState = "none"
    /\ pairMade = <<>>
    /\ releases = <<>> /\ freed = <<>>
    /\ useAfterFree = FALSE /\ doubleFree = FALSE

\* one ScriptCallback holding some listeners already
InitAddr ==
    /\ chState = [c \in ChanIds |-> IF c = 1 THEN "live" ELSE "free"]
    /\ m_name = [c \in ChanIds |-> IF c = 1 THEN "a" ELSE ""]
    /\ m_functions \in {[c \in ChanIds |-> IF c = 1 THEN l ELSE <<>>] :
                            l \in {<<>>, <<FnA>>, <<FnB, FnA>>}}
    /\ m_root_context = [c \in ChanIds |-> ZeroContext]
    /\ ctxUsable = [c \in ChanIds |-> TRUE]
    /\ m_managed = <<>>
    /\ createdOrder = <<1>>
    /\ ExecInit
    /\ HistInit
    /\ LifeInit

(* ----------------------------- ScriptCallback -------------------------- *)
\* a caller exists: the host between passes, or the listener being invoked
CanCall ==
    pc = "idle" \/ (pc = "listener" /\ reent < MaxReentrant)

Called ==
    reent' = IF pc = "listener" THEN reent + 1 ELSE reent

AddListenerTo_NoRangeCheck(fns, fnPluginFunction) ==
    IF fnPluginFunction = NullFn THEN fns
    ELSE Append(fns, fnPluginFunction)

AddListenerTo_Dedup(fns, fnPluginFunction) ==
    IF fnPluginFunction = NullFn THEN fns
    ELSE IF IsCorrupted(fnPluginFunction) THEN fns
    ELSE IF fnPluginFunction \in Elems(fns) THEN fns
    ELSE Append(fns, fnPluginFunction)

\* the list AddListener leaves
AddListenerTo(fns, fnPluginFunction) ==
    IF fnPluginFunction = NullFn THEN fns
    ELSE IF IsCorrupted(fnPluginFunction) THEN fns
    ELSE Append(fns, fnPluginFunction)

\* AddListener on channel c
DoAddListener(c, fnPluginFunction) ==
    /\ m_functions' = [m_functions EXCEPT ![c] = AddListenerTo(@, fnPluginFunction)]
    /\ old_functions' = m_functions[c]

\* what the histories keep of an AddListener call
NoteAdd(c, fnPluginFunction) ==
    /\ hist' = IF pc = "idle"
               THEN Note(Settle(hist), c, fnPluginFunction, "added")
               ELSE Note(hist, c, fnPluginFunction,
                         IF InPass(c) THEN "added_in_pass" ELSE "added")
    /\ newest' = [newest EXCEPT ![c] =
                     IF fnPluginFunction \in Tracked THEN fnPluginFunction ELSE NullFn]
    /\ adds' = IF fnPluginFunction \in Tracked
               THEN [adds EXCEPT ![c][fnPluginFunction] = @ + 1] ELSE adds

AddListener(c, fnPluginFunction) ==
    /\ CanCall
    /\ chState[c] = "live"
    /\ Len(m_functions[c]) < MaxListeners
    /\ DoAddListener(c, fnPluginFunction)
    /\ NoteAdd(c, fnPluginFunction)
    /\ Called
    /\ KeepPass
    /\ lastOp' = Call("AddListener", c, "", fnPluginFunction, FALSE, NullChannel)
    /\ UNCHANGED <<heapVars, m_managed, pc, exCh, functionsCopy, nI, bResetContext,
                   escaped, faultedBefore, regHist,
                   lifeVars>>

RemoveListenerFrom_First(fns, fnPluginFunction) ==
    IF fnPluginFunction = NullFn \/ fnPluginFunction \notin Elems(fns) THEN fns
    ELSE LET i == CHOOSE k \in 1..Len(fns) :
                      fns[k] = fnPluginFunction /\ \A j \in 1..(k - 1) : fns[j] # fnPluginFunction
         IN  SubSeq(fns, 1, i - 1) \o SubSeq(fns, i + 1, Len(fns))

\* the list RemoveListener leaves
RemoveListenerFrom(fns, fnPluginFunction) ==
    IF fnPluginFunction = NullFn THEN fns
    ELSE EraseAll(fns, fnPluginFunction)

\* RemoveListener on channel c
DoRemoveListener(c, fnPluginFunction) ==
    /\ m_functions' = [m_functions EXCEPT ![c] = RemoveListenerFrom(@, fnPluginFunction)]
    /\ old_functions' = m_functions[c]

\* what the histories keep of a RemoveListener call
NoteRemove(c, fnPluginFunction) ==
    /\ hist' = IF pc = "idle"
               THEN Note(Settle(hist), c, fnPluginFunction, "removed")
               ELSE Note(hist, c, fnPluginFunction,
                         IF InPass(c) THEN "removed_in_pass" ELSE "removed")
    /\ newest' = [newest EXCEPT ![c] = IF @ = fnPluginFunction THEN NullFn ELSE @]
    /\ adds' = Note(adds, c, fnPluginFunction, 0)

\* bool removed = m_functions.size() != nOriginalSize
RemoveListenerResult(c, fnPluginFunction) ==
    /\ fnPluginFunction # NullFn
    /\ Len(RemoveListenerFrom(m_functions[c], fnPluginFunction)) # Len(m_functions[c])

RemoveListener(c, fnPluginFunction) ==
    /\ CanCall
    /\ chState[c] = "live"
    /\ DoRemoveListener(c, fnPluginFunction)
    /\ NoteRemove(c, fnPluginFunction)
    /\ Called
    /\ lastOp' = Call("RemoveListener", c, "", fnPluginFunction,
                      RemoveListenerResult(c, fnPluginFunction), NullChannel)
    /\ KeepPass
    /\ UNCHANGED <<heapVars, m_managed, pc, exCh, functionsCopy, nI, bResetContext,
                   escaped, faultedBefore, regHist,
                   lifeVars>>

ExecuteBegin_NoReturn(c, reset) ==
    /\ pc = "idle"
    /\ chState[c] = "live"
    /\ pass0' = m_functions[c]
    /\ invoked' = <<>>
    /\ faults' = 0
    /\ hist' = Settle(hist)
    /\ old_functions' = <<>>
    /\ m_root_context' = IF ~ IsContextSafe(c)
                         THEN [m_root_context EXCEPT ![c] = ThrowNativeError(@)]
                         ELSE m_root_context
    /\ signaled' = ~ IsContextSafe(c)
    /\ exCh' = c
    /\ bResetContext' = reset
    /\ functionsCopy' = m_functions[c]
    /\ nI' = 0
    /\ pc' = "loop"
    /\ lastOp' = Call("ExecuteRunning", c, "", NullFn, reset, NullChannel)
    /\ UNCHANGED <<chState, m_name, m_functions, ctxUsable, m_managed, reent,
                   escaped, faultedBefore, newest, adds, regHist,
                   lifeVars>>

\* Execute up to the copy of the list: the probe, and the abort when it fails
ExecuteBegin(c, reset) ==
    /\ pc = "idle"
    /\ chState[c] = "live"
    /\ pass0' = m_functions[c]
    /\ invoked' = <<>>
    /\ faults' = 0
    /\ hist' = Settle(hist)
    /\ old_functions' = <<>>
    /\ IF ~ IsContextSafe(c)
       THEN /\ m_root_context' = [m_root_context EXCEPT ![c] = ThrowNativeError(@)]
            /\ signaled' = TRUE
            /\ lastOp' = Call("ExecuteAborted", c, "", NullFn, reset, NullChannel)
            /\ UNCHANGED <<pc, exCh, bResetContext, functionsCopy, nI>>
       ELSE /\ exCh' = c
            /\ bResetContext' = reset
            /\ functionsCopy' = m_functions[c]
            /\ nI' = 0
            /\ pc' = "loop"
            /\ signaled' = FALSE
            /\ lastOp' = Call("ExecuteRunning", c, "", NullFn, reset, NullChannel)
            /\ UNCHANGED m_root_context
    /\ UNCHANGED <<chState, m_name, m_functions, ctxUsable, m_managed, reent,
                   escaped, faultedBefore, newest, adds, regHist,
                   lifeVars>>

\* Execute returns: its locals are gone
ExecuteReturns ==
    /\ pc' = "idle"
    /\ exCh' = NullChannel
    /\ functionsCopy' = <<>>
    /\ nI' = 0
    /\ bResetContext' = FALSE
    /\ reent' = 0
    /\ lastOp' = Call("Execute", exCh, "", NullFn, bResetContext, NullChannel)

\* one turn of Execute's loop over `list`, or the end of Execute after the loop
ExecuteStepOn(list, mayReset) ==
    /\ pc = "loop"
    /\ IF nI < Len(list)
       THEN LET fnMethodToCall == list[nI + 1] IN
            /\ IF fnMethodToCall = NullFn \/ IsCorrupted(fnMethodToCall)
               THEN /\ nI' = nI + 1
                    /\ UNCHANGED <<pc, invoked, reent>>
               ELSE /\ pc' = "listener"
                    /\ invoked' = Append(invoked, fnMethodToCall)
                    /\ reent' = 0
                    /\ UNCHANGED nI
            /\ UNCHANGED <<m_root_context, lastOp, faultedBefore,
                           exCh, functionsCopy, bResetContext>>
       ELSE /\ m_root_context' =
                  IF bResetContext /\ mayReset
                  THEN [m_root_context EXCEPT ![exCh] = ContextReset(@)]
                  ELSE m_root_context
            /\ ExecuteReturns
            /\ faultedBefore' = (faultedBefore \/ faults # 0)
            /\ UNCHANGED invoked
    /\ UNCHANGED <<chState, m_name, m_functions, ctxUsable, m_managed,
                   pass0, signaled, faults, escaped,
                   callHist, old_functions, regHist,
                   lifeVars>>

ExecuteStep_Live ==
    ExecuteStepOn(m_functions[exCh], TRUE)

ExecuteStep_LiveSize ==
    ExecuteStepOn(SubSeq(functionsCopy, 1,
                         IF Len(m_functions[exCh]) < Len(functionsCopy)
                         THEN Len(m_functions[exCh]) ELSE Len(functionsCopy)), TRUE)

ExecuteStep_SkipRemoved ==
    ExecuteStepOn(SelectSeq(functionsCopy, LAMBDA e : e \in Elems(m_functions[exCh])), TRUE)

ExecuteStep_NoReset ==
    ExecuteStepOn(functionsCopy, FALSE)

\* Execute from the loop on: it walks the copy, then resets if asked to
ExecuteStep ==
    ExecuteStepOn(functionsCopy, TRUE)

\* control is back in Execute's loop, the listener's own calls are over
BackInLoop ==
    /\ pc' = "loop"
    /\ nI' = nI + 1
    /\ lastOp' = Call("ExecuteRunning", exCh, "", NullFn, bResetContext, NullChannel)
    /\ old_functions' = <<>>

\* the listener returns
ListenerReturn ==
    /\ pc = "listener"
    /\ BackInLoop
    /\ UNCHANGED <<heapVars, m_functions, m_managed, exCh, functionsCopy,
                   bResetContext, reent, passHist, callHist, regHist,
                   lifeVars>>

ListenerThrow_Abort ==
    /\ pc = "listener"
    /\ ExecuteReturns
    /\ faults' = IF faults = 0 THEN Len(invoked) ELSE faults
    /\ escaped' = TRUE
    /\ faultedBefore' = TRUE
    /\ UNCHANGED <<heapVars, m_functions, m_managed, invoked, pass0, signaled,
                   callHist, old_functions, regHist,
                   lifeVars>>

ListenerThrow_Restart ==
    /\ pc = "listener"
    /\ m_root_context' = [m_root_context EXCEPT ![exCh] = ThrowNativeError(@)]
    /\ signaled' = TRUE
    /\ faults' = 1
    /\ invoked' = <<>>
    /\ pc' = "loop"
    /\ nI' = 0
    /\ lastOp' = Call("ExecuteRunning", exCh, "", NullFn, bResetContext, NullChannel)
    /\ old_functions' = <<>>
    /\ UNCHANGED <<chState, m_name, ctxUsable, m_functions, m_managed, exCh,
                   functionsCopy, bResetContext, reent, pass0, escaped,
                   faultedBefore, callHist, regHist,
                   lifeVars>>

\* the listener throws: the catch (...) of Execute's loop
ListenerThrow ==
    /\ pc = "listener"
    /\ m_root_context' = [m_root_context EXCEPT ![exCh] = ThrowNativeError(@)]
    /\ signaled' = TRUE
    /\ faults' = IF faults = 0 THEN Len(invoked) ELSE faults
    /\ BackInLoop
    /\ UNCHANGED <<chState, m_name, ctxUsable, m_functions, m_managed, exCh,
                   functionsCopy, bResetContext, reent, invoked, pass0, escaped,
                   faultedBefore, callHist, regHist,
                   lifeVars>>

\* a call from the host between passes, as the histories see it
HostCall(op, c) ==
    /\ pc = "idle"
    /\ KeepPass
    /\ hist' = Settle(hist)
    /\ old_functions' = <<>>
    /\ lastOp' = Call(op, c, "", NullFn, FALSE, NullChannel)

\* ScriptCallback::Reset
Reset(c) ==
    /\ chState[c] = "live"
    /\ HostCall("Reset", c)
    /\ m_root_context' = [m_root_context EXCEPT ![c] = ContextReset(@)]
    /\ UNCHANGED <<chState, m_name, ctxUsable, m_functions, m_managed, execVars,
                   escaped, faultedBefore, newest, adds, regHist,
                   lifeVars>>

(* ------------------------- the channel's callers ----------------------- *)
\* the host places arguments in the context of an idle channel
PushArguments(c) ==
    /\ chState[c] = "live"
    /\ HostCall("PushArguments", c)
    /\ m_root_context[c].numArguments = 0
    /\ m_root_context' = [m_root_context EXCEPT ![c].numArguments = 1]
    /\ UNCHANGED <<chState, m_name, ctxUsable, m_functions, m_managed, execVars,
                   escaped, faultedBefore, newest, adds, regHist,
                   lifeVars>>

\* the listener being invoked writes to the context it was handed
ListenerWrites ==
    /\ pc = "listener"
    /\ m_root_context[exCh].numArguments = 0
    /\ m_root_context' = [m_root_context EXCEPT ![exCh].numArguments = 1]
    /\ UNCHANGED <<chState, m_name, ctxUsable, m_functions, m_managed, execVars,
                   passHist, callHist, lastOp, old_functions, regHist,
                   lifeVars>>

\* a caller leaves the context in a state that cannot be read, or repairs it
BreakContext(c) ==
    /\ chState[c] = "live"
    /\ HostCall("BreakContext", c)
    /\ ctxUsable' = [ctxUsable EXCEPT ![c] = ~ @]
    /\ UNCHANGED <<chState, m_name, m_root_context, m_functions, m_managed, execVars,
                   escaped, faultedBefore, newest, adds, regHist,
                   lifeVars>>

(* ---------------------------- CallbackManager -------------------------- *)
\* a call on the registry, between passes
RegistryCall ==
    /\ pc = "idle"
    /\ KeepPass
    /\ old_managed' = m_managed

\* new ScriptCallback(szName) at heap slot c
Construct(c, szName) ==
    /\ chState' = [chState EXCEPT ![c] = "live"]
    /\ m_name' = [m_name EXCEPT ![c] = szName]
    /\ m_functions' = [m_functions EXCEPT ![c] = <<>>]
    /\ m_root_context' = [m_root_context EXCEPT ![c] = ZeroContext]
    /\ ctxUsable' = [ctxUsable EXCEPT ![c] = TRUE]
    /\ hist' = [Settle(hist) EXCEPT ![c] = NoHist]
    /\ newest' = [newest EXCEPT ![c] = NullFn]
    /\ adds' = [adds EXCEPT ![c] = NoAdds]

\* delete pCallback, for each pCallback of `dead`: ~ScriptCallback clears the
\* list, and the storage with all its members is given back
Destroy(dead) ==
    /\ chState' = [c \in ChanIds |-> IF c \in dead THEN "free" ELSE chState[c]]
    /\ m_functions' = [c \in ChanIds |-> IF c \in dead THEN <<>> ELSE m_functions[c]]
    /\ m_name' = [c \in ChanIds |-> IF c \in dead THEN "" ELSE m_name[c]]
    /\ m_root_context' = [c \in ChanIds |->
                             IF c \in dead THEN ZeroContext ELSE m_root_context[c]]
    /\ ctxUsable' = [c \in ChanIds |-> IF c \in dead THEN TRUE ELSE ctxUsable[c]]
    /\ hist' = [c \in ChanIds |-> IF c \in dead THEN NoHist ELSE Settle(hist)[c]]
    /\ newest' = [c \in ChanIds |-> IF c \in dead THEN NullFn ELSE newest[c]]
    /\ adds' = [c \in ChanIds |-> IF c \in dead THEN NoAdds ELSE adds[c]]
    /\ createdOrder' = SelectSeq(createdOrder, LAMBDA c : c \notin dead)

\* CreateCallback: the allocator hands out any slot that holds no live object
CreateCallback(szName) ==
    /\ RegistryCall
    /\ \E c \in ChanIds :
          /\ chState[c] = "free"
          /\ Construct(c, szName)
          /\ m_managed' = Append(m_managed, c)
          /\ createdOrder' = Append(createdOrder, c)
          /\ held' = held \cup {c}
          /\ lastOp' = Call("CreateCallback", NullChannel, szName, NullFn, FALSE, c)
    /\ old_functions' = <<>>
    /\ releases' = <<>> /\ freed' = <<>>
    /\ UNCHANGED <<execVars, escaped, faultedBefore, pairVars, ubHist>>

\* new ScriptCallback(szName) by a caller itself: a channel no registry lists
NewScriptCallback(szName) ==
    /\ RegistryCall
    /\ \E c \in ChanIds :
          /\ chState[c] = "free"
          /\ Construct(c, szName)
          /\ createdOrder' = Append(createdOrder, c)
          /\ held' = held \cup {c}
          /\ lastOp' = Call("new ScriptCallback", NullChannel, szName, NullFn, FALSE, c)
    /\ old_functions' = <<>>
    /\ releases' = <<>> /\ freed' = <<>>
    /\ UNCHANGED <<m_managed, execVars, escaped, faultedBefore, pairVars, ubHist>>

FindCallback_Last(szName) ==
    LET hits == {i \in 1..Len(m_managed) : m_name[m_managed[i]] = szName}
    IN  IF hits = {} THEN NullChannel
        ELSE m_managed[CHOOSE i \in hits : \A j \in hits : j <= i]

\* FindCallback: the first managed channel of that name, or nullptr
FindCallback(szName) ==
    LET hits == {i \in 1..Len(m_managed) : m_name[m_managed[i]] = szName}
    IN  IF hits = {} THEN NullChannel
        ELSE m_managed[CHOOSE i \in hits : \A j \in hits : i <= j]

\* a caller looks a channel up
FindCallbackCall(szName) ==
    /\ RegistryCall
    /\ lastOp' = Call("FindCallback", NullChannel, szName, NullFn, FALSE,
                      FindCallback(szName))
    /\ hist' = Settle(hist)
    /\ old_functions' = <<>>
    /\ releases' = <<>> /\ freed' = <<>>
    /\ UNCHANGED <<heapVars, m_functions, m_managed, execVars, escaped, faultedBefore,
                   newest, adds, createdOrder, held, pairVars, ubHist>>

\* the registry and the heap as the body of ReleaseCallback sees them
HeapNow ==
    [managed |-> m_managed,
     live |-> {c \in ChanIds : chState[c] = "live"},
     freed |-> <<>>,
     uaf |-> useAfterFree,
     dfree |-> doubleFree]

ReleaseOn_ByName(st, pCallback) ==
    IF pCallback = NullChannel
    THEN st
    ELSE LET same == {c \in Elems(st.managed) : m_name[c] = m_name[pCallback]} \cup {pCallback}
         IN  [managed |-> SelectSeq(st.managed, LAMBDA pI : pI \notin same),
              live |-> st.live \ same,
              freed |-> Append(st.freed, pCallback),
              uaf |-> st.uaf \/ pCallback \notin st.live,
              dfree |-> st.dfree \/ pCallback \notin st.live]

ReleaseOn_LeakUnmanaged(st, pCallback) ==
    IF pCallback = NullChannel \/ pCallback \notin Elems(st.managed)
    THEN st
    ELSE [st EXCEPT !.managed = SelectSeq(st.managed, LAMBDA pI : pI # pCallback),
                    !.live = st.live \ {pCallback},
                    !.freed = Append(st.freed, pCallback)]

\* the body of ReleaseCallback: nullptr returns at once; otherwise the name is
\* read through the pointer, the pointer is erased from m_managed where found,
\* and delete is applied to it on both branches. On a pointer whose channel is
\* destroyed already the read and the delete are undefined; the two histories
\* record that, and the heap is left as it was: the run may also end there,
\* which every behaviour is free to do.
ReleaseOn(st, pCallback) ==
    IF pCallback = NullChannel
    THEN st
    ELSE [managed |-> SelectSeq(st.managed, LAMBDA pI : pI # pCallback),
          live |-> st.live \ {pCallback},
          freed |-> Append(st.freed, pCallback),
          uaf |-> st.uaf \/ pCallback \notin st.live,
          dfree |-> st.dfree \/ pCallback \notin st.live]

\* the registry and the heap after the releases
ApplyHeap(st) ==
    /\ m_managed' = st.managed
    /\ Destroy({c \in ChanIds : chState[c] = "live"} \ st.live)
    /\ freed' = st.freed
    /\ useAfterFree' = st.uaf
    /\ doubleFree' = st.dfree

\* ReleaseCallback of nullptr or of a pointer its caller got from CreateCallback
ReleaseCallback(pCallback) ==
    /\ RegistryCall
    /\ pCallback = NullChannel \/ pCallback \in held
    /\ ApplyHeap(ReleaseOn(HeapNow, pCallback))
    /\ held' = held \ {pCallback}
    /\ releases' = <<pCallback>>
    /\ lastOp' = Call("ReleaseCallback", pCallback, "", NullFn,
                      pCallback \in Elems(m_managed), NullChannel)
    /\ old_functions' = <<>>
    /\ UNCHANGED <<execVars, escaped, faultedBefore, pairVars>>

TryAddFunction_AllNamed(szName, fnCallable) ==
    /\ RegistryCall
    /\ LET pCallback == FindCallback(szName) IN
       IF pCallback # NullChannel
       THEN /\ \A c \in Elems(m_managed) :
                  m_name[c] = szName => Len(m_functions[c]) < MaxListeners
            /\ m_functions' = [c \in ChanIds |->
                                  IF c \in Elems(m_managed) /\ m_name[c] = szName
                                  THEN AddListenerTo(m_functions[c], fnCallable)
                                  ELSE m_functions[c]]
            /\ old_functions' = m_functions[pCallback]
            /\ lastOp' = Call("TryAddFunction", pCallback, szName, fnCallable, TRUE,
                              NullChannel)
       ELSE /\ lastOp' = Call("TryAddFunction", NullChannel, szName, fnCallable, FALSE,
                              NullChannel)
            /\ old_functions' = <<>>
            /\ UNCHANGED m_functions
    /\ releases' = <<>> /\ freed' = <<>>
    /\ UNCHANGED <<heapVars, m_managed, execVars, escaped, faultedBefore, callHist,
                   createdOrder, held, pairVars, ubHist>>

\* TryAddFunction
TryAddFunction(szName, fnCallable) ==
    /\ RegistryCall
    /\ LET pCallback == FindCallback(szName) IN
       IF pCallback # NullChannel
       THEN /\ Len(m_functions[pCallback]) < MaxListeners
            /\ DoAddListener(pCallback, fnCallable)
            /\ lastOp' = Call("TryAddFunction", pCallback, szName, fnCallable, TRUE,
                              NullChannel)
       ELSE /\ lastOp' = Call("TryAddFunction", NullChannel, szName, fnCallable, FALSE,
                              NullChannel)
            /\ old_functions' = <<>>
            /\ UNCHANGED m_functions
    /\ releases' = <<>> /\ freed' = <<>>
    /\ UNCHANGED <<heapVars, m_managed, execVars, escaped, faultedBefore, callHist,
                   createdOrder, held, pairVars, ubHist>>

\* TryRemoveFunction; the histories of the direct adds forget the pointer
TryRemoveFunction(szName, fnCallable) ==
    /\ RegistryCall
    /\ LET pCallback == FindCallback(szName) IN
       IF pCallback # NullChannel
       THEN /\ DoRemoveListener(pCallback, fnCallable)
            /\ lastOp' = Call("TryRemoveFunction", pCallback, szName, fnCallable,
                              RemoveListenerResult(pCallback, fnCallable), NullChannel)
            /\ newest' = [newest EXCEPT ![pCallback] =
                             IF @ = fnCallable THEN NullFn ELSE @]
            /\ adds' = Note(adds, pCallback, fnCallable, 0)
       ELSE /\ lastOp' = Call("TryRemoveFunction", NullChannel, szName, fnCallable, FALSE,
                              NullChannel)
            /\ old_functions' = <<>>
            /\ UNCHANGED <<m_functions, newest, adds>>
    /\ releases' = <<>> /\ freed' = <<>>
    /\ UNCHANGED <<heapVars, m_managed, execVars, escaped, faultedBefore, hist,
                   createdOrder, held, pairVars, ubHist>>

ClearAllCallbacks_KeepList ==
    /\ RegistryCall
    /\ Destroy(Elems(m_managed))
    /\ UNCHANGED m_managed
    /\ freed' = m_managed
    /\ releases' = <<>>
    /\ held' = held \ Elems(m_managed)
    /\ lastOp' = Call("ClearAllCallbacks", NullChannel, "", NullFn, FALSE, NullChannel)
    /\ old_functions' = <<>>
    /\ UNCHANGED <<execVars, escaped, faultedBefore, pairVars, ubHist>>

\* ClearAllCallbacks, which ~CallbackManager calls too: delete on each entry of
\* m_managed in order, then clear. The callers that hold these pointers take
\* them for gone; a CallbackPair keeps its two.
ClearAllCallbacks ==
    /\ RegistryCall
    /\ Destroy(Elems(m_managed))
    /\ m_managed' = <<>>
    /\ freed' = m_managed
    /\ releases' = <<>>
    /\ held' = held \ Elems(m_managed)
    /\ lastOp' = Call("ClearAllCallbacks", NullChannel, "", NullFn, FALSE, NullChannel)
    /\ old_functions' = <<>>
    /\ UNCHANGED <<execVars, escaped, faultedBefore, pairVars, ubHist>>

(* ------------------------------ CallbackPair --------------------------- *)
\* the value of pre and post before a constructor assigns them
PairMembersDefault == NullChannel

\* new ScriptCallback(szName) at each heap slot of `new`
ConstructEach(new, szName) ==
    /\ chState' = [c \in ChanIds |-> IF c \in new THEN "live" ELSE chState[c]]
    /\ m_name' = [c \in ChanIds |-> IF c \in new THEN szName ELSE m_name[c]]
    /\ m_functions' = [c \in ChanIds |-> IF c \in new THEN <<>> ELSE m_functions[c]]
    /\ m_root_context' = [c \in ChanIds |->
                             IF c \in new THEN ZeroContext ELSE m_root_context[c]]
    /\ ctxUsable' = [c \in ChanIds |-> IF c \in new THEN TRUE ELSE ctxUsable[c]]
    /\ hist' = [c \in ChanIds |-> IF c \in new THEN NoHist ELSE Settle(hist)[c]]
    /\ newest' = [c \in ChanIds |-> IF c \in new THEN NullFn ELSE newest[c]]
    /\ adds' = [c \in ChanIds |-> IF c \in new THEN NoAdds ELSE adds[c]]

\* the constructors' two calls of CreateCallback("")
PairCreates(op, bNoCallbacks) ==
    /\ RegistryCall
    /\ pairState # "constructed"
    /\ \E c1, c2 \in ChanIds :
          /\ c1 # c2
          /\ chState[c1] = "free" /\ chState[c2] = "free"
          /\ ConstructEach({c1, c2}, "")
          /\ m_managed' = m_managed \o <<c1, c2>>
          /\ createdOrder' = createdOrder \o <<c1, c2>>
          /\ pre' = c1 /\ post' = c2
          /\ pairMade' = <<c1, c2>>
    /\ pairState' = "constructed"
    /\ lastOp' = Call(op, NullChannel, "", NullFn, bNoCallbacks, NullChannel)
    /\ old_functions' = <<>>
    /\ releases' = <<>> /\ freed' = <<>>
    /\ UNCHANGED <<execVars, escaped, faultedBefore, held, ubHist>>

\* CallbackPair()
CallbackPairDefault ==
    PairCreates("CallbackPair()", FALSE)

CallbackPair_AlwaysCreates(bNoCallbacks) ==
    PairCreates("CallbackPair(bool)", bNoCallbacks)

\* CallbackPair(bool bNoCallbacks)
CallbackPair(bNoCallbacks) ==
    IF ~ bNoCallbacks
    THEN PairCreates("CallbackPair(bool)", bNoCallbacks)
    ELSE /\ RegistryCall
         /\ pairState # "constructed"
         /\ pre' = PairMembersDefault /\ post' = PairMembersDefault
         /\ pairMade' = <<>>
         /\ pairState' = "constructed"
         /\ lastOp' = Call("CallbackPair(bool)", NullChannel, "", NullFn, bNoCallbacks,
                           NullChannel)
         /\ hist' = Settle(hist)
         /\ old_functions' = <<>>
         /\ releases' = <<>> /\ freed' = <<>>
         /\ UNCHANGED <<heapVars, m_functions, m_managed, execVars, escaped,
                        faultedBefore, newest, adds, createdOrder, held, ubHist>>

\* the ReleaseCallback calls ~CallbackPair makes: one for each non-null member
PairReleases(first, second) ==
    (IF first # NullChannel THEN <<first>> ELSE <<>>)
       \o (IF second # NullChannel THEN <<second>> ELSE <<>>)

DestroyPair_KeepMembers ==
    /\ RegistryCall
    /\ pairState # "none"
    /\ ApplyHeap(ReleaseOn(ReleaseOn(HeapNow, pre), post))
    /\ releases' = PairReleases(pre, post)
    /\ UNCHANGED <<pre, post>>
    /\ pairState' = (IF pairState = "constructed" THEN "destroyed" ELSE "destroyedAgain")
    /\ UNCHANGED pairMade
    /\ lastOp' = Call("~CallbackPair", NullChannel, "", NullFn, FALSE, NullChannel)
    /\ old_functions' = <<>>
    /\ UNCHANGED <<execVars, escaped, faultedBefore, held>>

\* ~CallbackPair, run on the pair object any number of times: ReleaseCallback(pre)
\* and pre = nullptr if pre is set, then the same for post
DestroyPair ==
    /\ RegistryCall
    /\ pairState # "none"
    /\ ApplyHeap(ReleaseOn(ReleaseOn(HeapNow, pre), post))
    /\ releases' = PairReleases(pre, post)
    /\ pre' = NullChannel /\ post' = NullChannel
    /\ pairState' = (IF pairState = "constructed" THEN "destroyed" ELSE "destroyedAgain")
    /\ UNCHANGED pairMade
    /\ lastOp' = Call("~CallbackPair", NullChannel, "", NullFn, FALSE, NullChannel)
    /\ old_functions' = <<>>
    /\ UNCHANGED <<execVars, escaped, faultedBefore, held>>

(* --------------------------- specifications ---------------------------- *)
Next ==
    \/ \E c \in ChanIds, r \in Refs : AddListener(c, r)
    \/ \E c \in ChanIds, r \in Refs : RemoveListener(c, r)
    \/ \E c \in ChanIds, reset \in BOOLEAN : ExecuteBegin(c, reset)
    \/ ExecuteStep
    \/ ListenerReturn
    \/ ListenerThrow
    \/ ListenerWrites
    \/ \E c \in ChanIds : Reset(c)
    \/ \E c \in ChanIds : PushArguments(c)
    \/ \E c \in ChanIds : BreakContext(c)

Spec == Init /\ [][Next]_vars

\* Execute runs on once it is called, and every invoked listener returns or throws
Fairness ==
    /\ WF_vars(ExecuteStep)
    /\ WF_vars(ListenerReturn \/ ListenerThrow)

\* the calls that bear on whether a pass ends: those of Next on plausible
\* pointers, except the writes to the context's arguments and Reset
NextDispatch ==
    \/ \E c \in ChanIds, r \in Tracked : AddListener(c, r)
    \/ \E c \in ChanIds, r \in Tracked : RemoveListener(c, r)
    \/ \E c \in ChanIds, reset \in BOOLEAN : ExecuteBegin(c, reset)
    \/ ExecuteStep
    \/ ListenerReturn
    \/ ListenerThrow
    \/ \E c \in ChanIds : BreakContext(c)

SpecFair == Init /\ [][NextDispatch]_vars /\ Fairness

\* the pointers handed to the registry's wrappers
RegRefs == {NullFn, FnA, FnHigh}

NextRegistry ==
    \/ \E n \in Names : CreateCallback(n)
    \/ \E n \in Names : FindCallbackCall(n)
    \/ \E p \in ChanIds \cup {NullChannel} : ReleaseCallback(p)
    \/ \E n \in Names, r \in RegRefs : TryAddFunction(n, r)
    \/ \E n \in Names, r \in RegRefs : TryRemoveFunction(n, r)

SpecRegistry == InitRegistry /\ [][NextRegistry]_vars

\* the pointers handed to the wrappers where only their frame is looked at
TryRefs == {NullFn, FnA}

\* the registry's wrappers of AddListener and RemoveListener, on channels that
\* are created and released
NextTry ==
    \/ \E n \in Names : CreateCallback(n)
    \/ \E p \in ChanIds : ReleaseCallback(p)
    \/ \E n \in Names, r \in TryRefs : TryAddFunction(n, r)
    \/ \E n \in Names, r \in TryRefs : TryRemoveFunction(n, r)

SpecTry == InitRegistry /\ [][NextTry]_vars

\* teardown of the registry's channels, and the lookups around it
NextClear ==
    \/ \E n \in Names : CreateCallback(n)
    \/ \E n \in Names : FindCallbackCall(n)
    \/ \E n \in Names, r \in TryRefs : TryAddFunction(n, r)
    \/ \E n \in Names, r \in TryRefs : TryRemoveFunction(n, r)
    \/ ClearAllCallbacks

SpecClear == InitRegistry /\ [][NextClear]_vars

\* the pointers handed to a channel through either interface: null, two
\* plausible ones, and one with a bit above the 56th set
MixRefs == {NullFn, FnA, FnB, FnHigh}

\* every way of changing the listener list of a managed channel, and passes of
\* Execute whose listeners return
NextMix ==
    \/ \E c \in ChanIds, r \in MixRefs : AddListener(c, r)
    \/ \E c \in ChanIds, r \in MixRefs : RemoveListener(c, r)
    \/ \E n \in Names, r \in MixRefs : TryAddFunction(n, r)
    \/ \E n \in Names, r \in MixRefs : TryRemoveFunction(n, r)
    \/ \E c \in ChanIds : ExecuteBegin(c, FALSE)
    \/ ExecuteStep
    \/ ListenerReturn

SpecMix == InitMix /\ [][NextMix]_vars

\* channels of the registry and channels constructed beside it, released in
\* every order
NextRelease ==
    \/ \E n \in Names : CreateCallback(n)
    \/ \E n \in Names : NewScriptCallback(n)
    \/ \E p \in ChanIds \cup {NullChannel} : ReleaseCallback(p)
    \/ ClearAllCallbacks

SpecRelease == InitRegistry /\ [][NextRelease]_vars

\* the names given to CreateCallback beside the pair's ""
PairNames == {"a"}

\* the registry, the holders of its pointers and one CallbackPair
NextLifetime ==
    \/ \E n \in PairNames : CreateCallback(n)
    \/ \E n \in PairNames \cup {""} : FindCallbackCall(n)
    \/ \E p \in ChanIds \cup {NullChannel} : ReleaseCallback(p)
    \/ ClearAllCallbacks
    \/ CallbackPairDefault
    \/ \E b \in BOOLEAN : CallbackPair(b)
    \/ DestroyPair

SpecLifetime == InitRegistry /\ [][NextLifetime]_vars

\* 64-bit addresses around the two limits of the corruption check
AddrSamples ==
    {<<w3, w2, w1, w0>> : w3 \in {0, 1, 255, 256, 384, 32768, 65535},
                          w2 \in {0, 65535},
                          w1 \in {0, 320, 65535},
                          w0 \in {0, 1, 4095, 4096, 4097, 65535}}

\* AddListener applied once to a sampled address
NextAddr ==
    \E r \in AddrSamples : lastOp.op = "none" /\ AddListener(1, r)

SpecAddr == InitAddr /\ [][NextAddr]_vars

(* ------------------------------ properties ----------------------------- *)
\* the range of addresses the specification calls plausible: 0x1000 <= a < 2^56
InRange(a) ==
    /\ ~ AddrLT(a, <<0, 0, 0, 4096>>)
    /\ AddrLT(a, <<256, 0, 0, 0>>)

\* Execute ran its loop and has returned, and nothing was called since
PassDone == pc = "idle" /\ lastOp.op = "Execute"

\* a pass is running
InExecute == pc # "idle"

IsPrefix(s, t) == Len(s) <= Len(t) /\ s = SubSeq(t, 1, Len(s))

\* C1: a pass over a safe context invokes exactly the listener sequence as it
\* stood when the pass began, in that order and once per occurrence, whatever
\* AddListener/RemoveListener calls the invoked listeners make meanwhile: while
\* the pass runs the invocations are a prefix of that sequence, and when it has
\* returned they are the whole of it.
C1_SnapshotOrder ==
    /\ InExecute => IsPrefix(invoked, pass0)
    /\ PassDone => invoked = pass0

\* a pass of at least two different listeners during which the live list changed
C1_Witness ==
    /\ PassDone
    /\ Len(invoked) >= 2
    /\ invoked[1] # invoked[2]
    /\ m_functions[lastOp.ch] # pass0

\* C2: a pointer added by a listener during a pass, and not part of that pass's
\* snapshot, is not invoked in that pass; it is in the live sequence, at its end
\* as long as it is the latest addition; a pass that begins while it is still
\* added invokes it, and invokes it last when it is still the latest addition.
C2_AddDuringPass ==
    \A r \in Tracked : InRange(r) =>
        /\ (InExecute /\ hist[exCh][r] = "added_in_pass" /\ r \notin Elems(pass0))
              => r \notin Elems(invoked)
        /\ (PassDone /\ hist[lastOp.ch][r] = "added_in_pass" /\ r \notin Elems(pass0))
              => (r \notin Elems(invoked) /\ r \in Elems(m_functions[lastOp.ch]))
        /\ \A c \in ChanIds : newest[c] = r =>
              /\ m_functions[c] # <<>>
              /\ m_functions[c][Len(m_functions[c])] = r
        /\ (PassDone /\ hist[lastOp.ch][r] = "added") => r \in Elems(invoked)
        /\ (PassDone /\ hist[lastOp.ch][r] = "added" /\ newest[lastOp.ch] = r)
              => invoked[Len(invoked)] = r

\* a pass has returned in which FnA ran and added FnB, which did not run
C2_Witness ==
    /\ PassDone
    /\ pass0 = <<FnA>>
    /\ invoked = <<FnA>>
    /\ hist[lastOp.ch][FnB] = "added_in_pass"
    /\ m_functions[lastOp.ch] = <<FnA, FnB>>

\* C3: a pointer of the snapshot removed by a listener during the pass is still
\* invoked in that pass, once per occurrence in the snapshot, and is gone from
\* the live sequence; a pass that begins after the removal does not invoke it
\* (as long as it was not added again).
C3_RemoveDuringPass ==
    \A x \in Tracked :
        /\ (PassDone /\ hist[lastOp.ch][x] = "removed_in_pass")
              => /\ Count(invoked, x) = Count(pass0, x)
                 /\ x \notin Elems(m_functions[lastOp.ch])
        /\ (InExecute /\ hist[exCh][x] = "removed") => x \notin Elems(invoked)
        /\ (PassDone /\ hist[lastOp.ch][x] = "removed") => x \notin Elems(invoked)

\* listeners FnA, FnB: FnA was removed during the pass, and both were invoked
C3_Witness ==
    /\ PassDone
    /\ pass0 = <<FnA, FnB>>
    /\ invoked = <<FnA, FnB>>
    /\ hist[lastOp.ch][FnA] = "removed_in_pass"
    /\ m_functions[lastOp.ch] = <<FnB>>

\* C4: when listeners of a pass throw, every listener of the snapshot is still
\* invoked in order, a native error is signaled on the context (and is still
\* there when no reset was asked for), no exception leaves Execute, the pass
\* itself removes nothing from the live sequence, and the passes after a pass
\* with a fault invoke their whole snapshot too.
C4_FaultIsolation ==
    /\ ~ escaped
    /\ (InExecute /\ faults # 0) => signaled
    /\ (PassDone /\ faults # 0) =>
          /\ invoked = pass0
          /\ signaled
          /\ ~ lastOp.ret => m_root_context[lastOp.ch].has_error
          /\ \A r \in Tracked :
                hist[lastOp.ch][r] \notin {"added_in_pass", "removed_in_pass"}
                   => Count(m_functions[lastOp.ch], r) = Count(pass0, r)
    /\ (PassDone /\ faultedBefore) => invoked = pass0

\* the second of three listeners threw, and all three were invoked
C4_Witness ==
    /\ PassDone
    /\ Len(pass0) = 3
    /\ faults = 2
    /\ invoked = pass0

\* C5: RemoveListener with a non-null pointer leaves no occurrence of it and no
\* other entry lost; it returns true exactly when the pointer is non-null and
\* was present, and changes nothing when it returns false; a pass that begins
\* after the removal does not invoke the pointer unless it was added again.
C5_RemoveAll ==
    /\ lastOp.op = "RemoveListener" =>
          LET new == m_functions[lastOp.ch]
              r == lastOp.ref
          IN  /\ r # NullFn => Count(new, r) = 0
              /\ \A s \in Refs \ {r} : Count(new, s) = Count(old_functions, s)
              /\ lastOp.ret <=> (r # NullFn /\ Count(old_functions, r) > 0)
              /\ ~ lastOp.ret => new = old_functions
    /\ \A r \in Tracked :
          /\ (InExecute /\ hist[exCh][r] = "removed") => Count(invoked, r) = 0
          /\ (PassDone /\ hist[lastOp.ch][r] = "removed") => Count(invoked, r) = 0

\* a pointer present twice was removed, other listeners staying
C5_Witness ==
    /\ lastOp.op = "RemoveListener"
    /\ lastOp.ret
    /\ Count(old_functions, lastOp.ref) = 2
    /\ Len(old_functions) = 3
    /\ Len(m_functions[lastOp.ch]) = 1

\* C6: a valid pointer added k times since it was last removed occurs k times
\* in the listener sequence, and a pass that began with it added k times
\* invokes it k times.
C6_DuplicateAdds ==
    /\ \A c \in ChanIds : \A r \in Tracked : InRange(r) =>
          Count(m_functions[c], r) = adds[c][r]
    /\ PassDone => \A r \in Tracked :
          (InRange(r) /\ hist[lastOp.ch][r] \notin {"added_in_pass", "removed_in_pass"})
             => Count(invoked, r) = adds[lastOp.ch][r]

\* a pass has invoked twice a pointer that was added twice
C6_Witness ==
    /\ PassDone
    /\ adds[lastOp.ch][FnA] = 2
    /\ Count(invoked, FnA) = 2
    /\ hist[lastOp.ch][FnA] = "added"

\* C7: AddListener appends the pointer at the end of the listener sequence
\* when its address a satisfies 0x1000 <= a < 2^56, and leaves the sequence as
\* it was for every other address, 0 included.
C7_PlausibleRange ==
    lastOp.op = "AddListener" =>
        /\ InRange(lastOp.ref)
              => m_functions[lastOp.ch] = Append(old_functions, lastOp.ref)
        /\ ~ InRange(lastOp.ref) => m_functions[lastOp.ch] = old_functions

\* the largest accepted address, 2^56 - 1, was appended to a list of two
C7_Witness ==
    /\ lastOp.op = "AddListener"
    /\ lastOp.ref = FnB
    /\ m_functions[lastOp.ch] = <<FnB, FnA, FnB>>

\* C8 as stated: TryAddFunction on an existing channel returns true only when
\* the pointer was appended to that channel's listener sequence, so that an
\* invalid pointer (null, or outside the plausible range) is answered by false.
C8_InvalidAddFails ==
    (lastOp.op = "TryAddFunction" /\ lastOp.ch # NullChannel /\ lastOp.ret)
        => m_functions[lastOp.ch] = Append(old_functions, lastOp.ref)

\* the earliest constructed of the managed channels named n, or nullptr
EarliestNamed(n) ==
    LET hits == {i \in 1..Len(createdOrder) :
                    /\ createdOrder[i] \in Elems(m_managed)
                    /\ m_name[createdOrder[i]] = n}
    IN  IF hits = {} THEN NullChannel
        ELSE createdOrder[CHOOSE i \in hits : \A j \in hits : i <= j]

\* C9: CreateCallback adds exactly one channel to the managed set, one that was
\* not in it, live and of the name asked for, whether or not that name is taken;
\* no channel is managed twice; FindCallback returns the earliest constructed
\* of the managed channels of exactly that name, and nullptr when there is none.
C9_CreateAndFind ==
    /\ Cardinality(Elems(m_managed)) = Len(m_managed)
    /\ lastOp.op = "CreateCallback" =>
          /\ lastOp.retCh \in ChanIds
          /\ lastOp.retCh \notin Elems(old_managed)
          /\ Elems(m_managed) = Elems(old_managed) \cup {lastOp.retCh}
          /\ Len(m_managed) = Len(old_managed) + 1
          /\ chState[lastOp.retCh] = "live"
          /\ m_name[lastOp.retCh] = lastOp.name
          /\ m_functions[lastOp.retCh] = <<>>
    /\ lastOp.op = "FindCallback" => lastOp.retCh = EarliestNamed(lastOp.name)

\* two channels of one name are managed, the one at the higher address being
\* the older since an earlier channel was released, and FindCallback returned it
C9_Witness ==
    /\ lastOp.op = "FindCallback"
    /\ lastOp.retCh = 2
    /\ createdOrder = <<2, 1>>
    /\ m_name[1] = lastOp.name
    /\ m_name[2] = lastOp.name

\* C10 as stated: after Execute(resetAfter = true) has returned, on any path,
\* the call context is in its zero state.
C10_ResetOnEveryPath ==
    (pc = "idle" /\ lastOp.op \in {"Execute", "ExecuteAborted"} /\ lastOp.ret)
        => m_root_context[lastOp.ch] = ZeroContext

\* C10, amended: after Execute(resetAfter = true) that passed the context
\* probe has returned, listeners having thrown or not, the call context is in
\* its zero state; after the probe failed Execute returns without a reset; and
\* Reset leaves the zero state, which a second Reset leaves as it is.
C10_ResetAfterLoop ==
    /\ (PassDone /\ lastOp.ret) => m_root_context[lastOp.ch] = ZeroContext
    /\ lastOp.op = "Reset" =>
          /\ m_root_context[lastOp.ch] = ZeroContext
          /\ ContextReset(m_root_context[lastOp.ch]) = m_root_context[lastOp.ch]

\* a pass with a fault, which set the error flag, has returned after its reset
C10_Witness ==
    /\ PassDone
    /\ lastOp.ret
    /\ faults # 0
    /\ invoked # <<>>

\* a channel object is live and in the registry's list
Managed(c) ==
    c \in Elems(m_managed) /\ chState[c] = "live"

\* C11: ~CallbackPair leaves pre and post null, and when it runs again on a pair
\* that was destroyed before, it calls ReleaseCallback for neither channel, applies
\* delete to nothing, and changes neither m_managed nor any channel.
C11_PairDestroyedOnce ==
    [][lastOp'.op = "~CallbackPair"
          => /\ pre' = NullChannel /\ post' = NullChannel
             /\ Len(releases') <= 2
             /\ \A c \in ChanIds : Count(releases', c) <= 1
             /\ pairState \in {"destroyed", "destroyedAgain"}
                   => /\ releases' = <<>> /\ freed' = <<>>
                      /\ m_managed' = m_managed
                      /\ chState' = chState
                      /\ m_name' = m_name
                      /\ m_functions' = m_functions
                      /\ doubleFree' = doubleFree]_vars

\* a pair that created two channels has been destroyed twice
C11_Witness ==
    /\ pairState = "destroyedAgain"
    /\ Len(pairMade) = 2
    /\ lastOp.op = "~CallbackPair"
    /\ m_managed # <<>>

\* C12: a managed channel stays live, managed and under its name across every
\* call, except a call that passes its pointer to ReleaseCallback and
\* ClearAllCallbacks; creating or releasing other channels, of the same name too,
\* leaves it so.
C12_RefStaysValid ==
    [][\A c \in ChanIds :
          Managed(c) /\ lastOp'.op # "ClearAllCallbacks" /\ c \notin Elems(releases')
             => /\ chState'[c] = "live"
                /\ c \in Elems(m_managed')
                /\ m_name'[c] = m_name[c]]_vars

\* of two managed channels of one name the later was released, the earlier stays
C12_Witness ==
    /\ lastOp.op = "ReleaseCallback" /\ lastOp.ret
    /\ Len(old_managed) >= 2
    /\ lastOp.ch = old_managed[2]
    /\ Managed(old_managed[1])
    /\ m_name[old_managed[1]] = "a"
    /\ pairState = "none"

\* C13: when the probe of the context fails, Execute invokes no listener,
\* signals a native error through the context, leaves m_functions as it was and
\* returns without an exception leaving it; and a pass over a safe context that
\* follows an aborted one (the error flag is set though no listener ever threw)
\* invokes all listeners of the list.
C13_ProbeAbort ==
    /\ lastOp.op = "ExecuteAborted"
          => /\ pc = "idle"
             /\ invoked = <<>>
             /\ signaled
             /\ m_root_context[lastOp.ch].has_error
             /\ m_functions[lastOp.ch] = pass0
             /\ ~ escaped
    /\ (signaled /\ faults = 0) => (pc = "idle" /\ invoked = <<>>)
    /\ (PassDone /\ m_root_context[lastOp.ch].has_error /\ faults = 0 /\ ~ faultedBefore)
          => invoked = pass0

\* Execute was aborted on a channel that holds two listeners
C13_Witness ==
    /\ lastOp.op = "ExecuteAborted"
    /\ Len(m_functions[lastOp.ch]) >= 2
    /\ ~ ctxUsable[lastOp.ch]

\* a full pass over two listeners has followed an aborted Execute
C13_WitnessLaterPass ==
    /\ PassDone /\ m_root_context[lastOp.ch].has_error /\ faults = 0 /\ ~ faultedBefore
    /\ Len(invoked) >= 2

\* C14: provided every invoked listener returns or throws, every Execute that
\* has entered its loop returns, the channel being idle again: whether listeners
\* threw or not, and whatever AddListener/RemoveListener calls they made.
C14_ExecuteReturns ==
    InExecute ~> (pc = "idle")

\* a pass in which a listener threw and the list grew has returned
C14_Witness ==
    /\ PassDone
    /\ faults # 0
    /\ Len(m_functions[lastOp.ch]) > Len(pass0)
    /\ Len(invoked) >= 2

\* `after` is `before` without its entry at one position, the rest in place
WithoutOne(before, after, p) ==
    \E i \in 1..Len(before) :
       /\ before[i] = p
       /\ after = SubSeq(before, 1, i - 1) \o SubSeq(before, i + 1, Len(before))

\* every channel but p is as it was
OthersKept(p) ==
    \A c \in ChanIds \ {p} :
       /\ chState'[c] = chState[c]
       /\ m_name'[c] = m_name[c]
       /\ m_functions'[c] = m_functions[c]

\* C15: ReleaseCallback(nullptr) changes nothing; ReleaseCallback of a managed
\* pointer takes it out of m_managed, applies delete to it once and to nothing
\* else, and leaves the other managed channels managed, live and in their
\* order; ReleaseCallback of a non-null pointer that is not managed leaves
\* m_managed as it is and applies delete to the pointer all the same.
C15_ReleaseFrame ==
    [][lastOp'.op = "ReleaseCallback"
          => LET p == lastOp'.ch IN
             /\ p = NullChannel
                   => /\ m_managed' = m_managed
                      /\ freed' = <<>>
                      /\ OthersKept(p)
                      /\ ~ lastOp'.ret
             /\ (p # NullChannel /\ p \in Elems(m_managed))
                   => /\ WithoutOne(m_managed, m_managed', p)
                      /\ p \notin Elems(m_managed')
                      /\ freed' = <<p>>
                      /\ chState[p] = "live" /\ chState'[p] = "free"
                      /\ doubleFree' = doubleFree
                      /\ OthersKept(p)
                      /\ lastOp'.ret
             /\ (p # NullChannel /\ p \notin Elems(m_managed))
                   => /\ m_managed' = m_managed
                      /\ freed' = <<p>>
                      /\ chState'[p] = "free"
                      /\ OthersKept(p)
                      /\ ~ lastOp'.ret]_vars

\* a live channel that the registry does not list was released beside two
\* managed ones, which stayed
C15_Witness ==
    /\ lastOp.op = "ReleaseCallback"
    /\ lastOp.ch # NullChannel
    /\ ~ lastOp.ret
    /\ freed = <<lastOp.ch>>
    /\ ~ doubleFree
    /\ Len(m_managed) >= 2
    /\ m_managed = old_managed

\* the middle one of three managed channels was released
C15_WitnessManaged ==
    /\ lastOp.op = "ReleaseCallback" /\ lastOp.ret
    /\ Len(old_managed) = 3
    /\ lastOp.ch = old_managed[2]
    /\ m_managed = <<old_managed[1], old_managed[3]>>

\* C16: TryAddFunction and TryRemoveFunction create and destroy no channel and
\* leave m_managed as it is; when no managed channel has the name they return
\* false and change nothing; otherwise only the listener list of the earliest
\* managed channel of the name changes, by the appended pointer or by the
\* erased occurrences, and TryRemoveFunction returns whether that list shrank,
\* which is what RemoveListener returns.
C16_TryFrame ==
    [][lastOp'.op \in {"TryAddFunction", "TryRemoveFunction"}
          => LET c == EarliestNamed(lastOp'.name)
                 r == lastOp'.ref
             IN
             /\ chState' = chState /\ m_name' = m_name /\ m_managed' = m_managed
             /\ m_root_context' = m_root_context /\ ctxUsable' = ctxUsable
             /\ freed' = <<>>
             /\ lastOp'.ch = c
             /\ m_functions' = [d \in ChanIds |->
                                   IF d = c THEN m_functions'[d] ELSE m_functions[d]]
             /\ c = NullChannel => ~ lastOp'.ret
             /\ (c # NullChannel /\ lastOp'.op = "TryAddFunction")
                   => m_functions'[c] \in {m_functions[c], Append(m_functions[c], r)}
             /\ (c # NullChannel /\ lastOp'.op = "TryRemoveFunction")
                   => /\ m_functions'[c] = SelectSeq(m_functions[c], LAMBDA e : e # r)
                      /\ lastOp'.ret = (r # NullFn /\ Len(m_functions'[c]) # Len(m_functions[c]))]_vars

\* of two managed channels of one name, TryAddFunction filled the earlier and left
\* the later empty, and then TryRemoveFunction found nothing to remove
C16_Witness ==
    /\ lastOp.op = "TryRemoveFunction" /\ ~ lastOp.ret
    /\ lastOp.ch # NullChannel
    /\ \E d \in Elems(m_managed) \ {lastOp.ch} :
          /\ m_name[d] = lastOp.name
          /\ m_functions[d] = <<>>
    /\ m_functions[lastOp.ch] # <<>>

\* C17: ClearAllCallbacks applies delete once to every managed channel, which
\* was live, and to nothing else, and leaves m_managed empty; the FindCallback,
\* TryAddFunction or TryRemoveFunction call that follows it finds no channel
\* under any name; and ClearAllCallbacks on an empty registry, as from
\* ~CallbackManager after an earlier clear, applies delete to nothing.
C17_ClearAll ==
    [][/\ lastOp'.op = "ClearAllCallbacks"
             => /\ m_managed' = <<>>
                /\ freed' = m_managed
                /\ \A c \in ChanIds :
                      IF c \in Elems(m_managed)
                      THEN /\ Count(freed', c) = 1
                           /\ chState[c] = "live" /\ chState'[c] = "free"
                      ELSE chState'[c] = chState[c]
                /\ doubleFree' = doubleFree
                /\ \A n \in Names : EarliestNamed(n)' = NullChannel
       /\ (lastOp.op = "ClearAllCallbacks" /\ lastOp'.op = "FindCallback")
             => lastOp'.retCh = NullChannel
       /\ (lastOp.op = "ClearAllCallbacks"
              /\ lastOp'.op \in {"TryAddFunction", "TryRemoveFunction"})
             => (~ lastOp'.ret /\ m_functions' = m_functions)]_vars

\* three managed channels were cleared, and no channel is left
C17_Witness ==
    /\ lastOp.op = "ClearAllCallbacks"
    /\ Len(old_managed) = 3
    /\ freed = old_managed
    /\ m_managed = <<>>
    /\ \A c \in ChanIds : chState[c] = "free"

\* ClearAllCallbacks ran on an empty registry
C17_WitnessAgain ==
    /\ lastOp.op = "ClearAllCallbacks"
    /\ old_managed = <<>> /\ freed = <<>>
    /\ m_managed = <<>>

\* C18: CallbackPair(true) creates no channel and leaves pre and post null, and
\* the destructor of a pair whose members are null calls ReleaseCallback not at
\* all; CallbackPair() and CallbackPair(false) append exactly two new, distinct,
\* live channels to m_managed and hold them as pre and post, and the destructor
\* of a pair that holds two pointers calls ReleaseCallback on exactly these two,
\* which takes both out of m_managed and applies delete to both and to nothing
\* else.
C18_PairModes ==
    [][/\ (lastOp'.op = "CallbackPair(bool)" /\ lastOp'.ret)
             => /\ pre' = NullChannel /\ post' = NullChannel
                /\ m_managed' = m_managed
                /\ chState' = chState
       /\ (lastOp'.op = "CallbackPair()" \/ (lastOp'.op = "CallbackPair(bool)" /\ ~ lastOp'.ret))
             => /\ pre' \in ChanIds /\ post' \in ChanIds /\ pre' # post'
                /\ chState[pre'] = "free" /\ chState[post'] = "free"
                /\ m_managed' = m_managed \o <<pre', post'>>
                /\ \A c \in ChanIds :
                      chState'[c] = (IF c \in {pre', post'} THEN "live" ELSE chState[c])
                /\ m_name'[pre'] = "" /\ m_name'[post'] = ""
       /\ (lastOp'.op = "~CallbackPair" /\ pre = NullChannel /\ post = NullChannel)
             => /\ releases' = <<>> /\ freed' = <<>>
                /\ m_managed' = m_managed
                /\ chState' = chState
       /\ (lastOp'.op = "~CallbackPair" /\ pre # NullChannel /\ post # NullChannel)
             => /\ releases' = <<pre, post>>
                /\ freed' = <<pre, post>>
                /\ m_managed' = SelectSeq(m_managed, LAMBDA c : c \notin {pre, post})
                /\ \A c \in ChanIds :
                      chState'[c] = (IF c \in {pre, post} THEN "free" ELSE chState[c])
       /\ (pre' = NullChannel) = (post' = NullChannel)]_vars

\* a pair that created two channels was destroyed, which released these two
\* and left another managed channel alone
C18_Witness ==
    /\ lastOp.op = "~CallbackPair"
    /\ pairState = "destroyed"
    /\ Len(pairMade) = 2
    /\ freed = pairMade
    /\ releases = pairMade
    /\ ~ doubleFree
    /\ m_managed # <<>>
    /\ m_managed = SelectSeq(old_managed, LAMBDA c : c \notin Elems(pairMade))

\* a pair constructed without channels was destroyed beside managed channels
C18_WitnessNoChannels ==
    /\ lastOp.op = "~CallbackPair"
    /\ pairState = "destroyed"
    /\ pairMade = <<>>
    /\ releases = <<>>
    /\ m_managed # <<>>

\* C19: in every state reached by CreateCallback, ReleaseCallback on pointers
\* their callers hold, ClearAllCallbacks and the construction and destruction
\* of a CallbackPair, delete was applied to no channel that was destroyed
\* already, and no member of a destroyed channel was read.
C19_NoDoubleDestroy ==
    /\ ~ doubleFree
    /\ ~ useAfterFree

\* s is t with some entries left out, the others in their order
IsOrderedPart(s, t) ==
    \E f \in [1..Len(s) -> 1..Len(t)] :
       /\ \A i \in 1..Len(s) : s[i] = t[f[i]]
       /\ \A i, j \in 1..Len(s) : i < j => f[i] < f[j]

\* a step of Execute itself: the probe's abort, or a move of its position
ExecuteMoves ==
    pc' # pc \/ nI' # nI \/ (lastOp'.op = "ExecuteAborted" /\ lastOp' # lastOp)

\* C20: after every AddListener, RemoveListener, TryAddFunction,
\* TryRemoveFunction and step of Execute each entry of each channel's listener
\* list is non-null and within 0x1000 <= a < 2^56, so Execute's loop never
\* takes a skip branch (it never advances without an invocation);
\* RemoveListener and TryRemoveFunction leave the entries other than the
\* removed pointer, each as often as before and in their order; and no step of
\* Execute changes any listener list.
C20_EntriesValid ==
    [][/\ \A c \in ChanIds : \A i \in 1..Len(m_functions'[c]) :
             m_functions'[c][i] # NullFn /\ InRange(m_functions'[c][i])
       /\ ~ (pc = "loop" /\ pc' = "loop" /\ nI' # nI)
       /\ ExecuteMoves => m_functions' = m_functions
       /\ (~ ExecuteMoves /\ lastOp'.op \in {"RemoveListener", "TryRemoveFunction"}
              /\ lastOp'.ch # NullChannel)
             => LET before == m_functions[lastOp'.ch]
                    after == m_functions'[lastOp'.ch]
                IN  /\ IsOrderedPart(after, before)
                    /\ \A x \in MixRefs \ {lastOp'.ref} :
                          Count(after, x) = Count(before, x)
                    /\ lastOp'.ref # NullFn => Count(after, lastOp'.ref) = 0]_vars

\* a pass over three entries, FnB the first, has returned on a managed channel
\* whose list holds FnA alone by now
C20_Witness ==
    /\ PassDone
    /\ Len(invoked) = 3
    /\ invoked[1] = FnB /\ invoked[2] = FnA
    /\ lastOp.ch \in Elems(m_managed)
    /\ m_functions[lastOp.ch] = <<FnA>>


====
